---------------------------- MODULE Spec2Model ----------------------------
(***************************************************************************)
(* A model of lib/pharutils.js (PharUtils.js, the 2018 revision: the one   *)
(* whose API is loadPharData/savePharData, as the README documents).       *)
(*                                                                         *)
(* Octet strings are sequences of numbers 0..255.  A JavaScript number     *)
(* that may need 32 bits (a u32 read from a buffer, a CRC, a timestamp)    *)
(* is a record [hi, lo] standing for hi * 65536 + lo with lo in 0..65535,  *)
(* so that -1 is [hi |-> -1, lo |-> 65535] and 0xFFFFFFFF is               *)
(* [hi |-> 65535, lo |-> 65535]: the two differ, as they do in the code.   *)
(*                                                                         *)
(* Every record constructor lists its fields in the order in which the     *)
(* names first occur in this module.  That is the order TLC sorts a        *)
(* record's fields into, so a record is built in its normal form and TLC's *)
(* workers never reorder a record that they share.                         *)
(***************************************************************************)
EXTENDS Integers, Sequences, FiniteSets, Bags, TLC

(***************************************************************************)
(* Numbers                                                                 *)
(***************************************************************************)
W16 == 65536

N(i) == [hi |-> i \div W16, lo |-> i % W16]

\* ToUint32 of a number: the bit pattern the JavaScript bit operators see.
U32(n) == [hi |-> n.hi % W16, lo |-> n.lo]

RECURSIVE Bits16(_, _, _, _)
\* A bitwise operator on two 16-bit values, bit by bit; f is the truth table
\* indexed by a + 2 * b + 1.
Bits16(a, b, f, k) ==
    IF k = 0 THEN 0
    ELSE f[(a % 2) + 2 * (b % 2) + 1] + 2 * Bits16(a \div 2, b \div 2, f, k - 1)

And16(a, b) == Bits16(a, b, <<0, 0, 0, 1>>, 16)
Or16(a, b) == Bits16(a, b, <<0, 1, 1, 1>>, 16)
Xor16(a, b) == Bits16(a, b, <<0, 1, 1, 0>>, 16)

\* a ^ b, a | b, a & b on 32-bit patterns (the result as an unsigned pattern).
XorU(a, b) == [hi |-> Xor16(U32(a).hi, U32(b).hi), lo |-> Xor16(a.lo, b.lo)]
OrU(a, b) == [hi |-> Or16(U32(a).hi, U32(b).hi), lo |-> Or16(a.lo, b.lo)]

\* ToInt32 of an unsigned pattern: what |, ^ and & return.
ToInt32(u) == IF u.hi >= 32768 THEN [hi |-> u.hi - W16, lo |-> u.lo] ELSE u

\* c >>> 1 and c >>> 8 on an unsigned pattern.
Shr1(u) == [hi |-> u.hi \div 2, lo |-> (u.lo \div 2) + (u.hi % 2) * 32768]
Shr8(u) == [hi |-> u.hi \div 256, lo |-> (u.lo \div 256) + (u.hi % 256) * 256]

(***************************************************************************)
(* crc32 (lines 26-46)                                                     *)
(***************************************************************************)
CrcPoly == [hi |-> 60856, lo |-> 33568]    \* 0xEDB88320

RECURSIVE CrcEntry(_, _)
CrcEntry(c, k) ==
    IF k = 0 THEN c
    ELSE CrcEntry(IF c.lo % 2 = 1 THEN XorU(CrcPoly, Shr1(c)) ELSE Shr1(c), k - 1)

makeCRCTable == [n \in 0..255 |-> CrcEntry(N(n), 8)]

RECURSIVE CrcLoop(_, _, _)
CrcLoop(crc, str, i) ==
    IF i > Len(str) THEN crc
    ELSE CrcLoop(XorU(Shr8(crc), makeCRCTable[Xor16(crc.lo, str[i]) % 256]), str, i + 1)

\* var crc = 0 ^ (-1); ...; return (crc ^ (-1)) >>> 0
crc32(str) == XorU(CrcLoop(U32(N(-1)), str, 1), U32(N(-1)))

(***************************************************************************)
(* PharUtils.Binary (lines 109-161)                                        *)
(***************************************************************************)
\* buffer.charCodeAt(i) << (8 * i): a missing character is NaN, which shifts as 0.
CharCodeAt(buffer, i) == IF i + 1 <= Len(buffer) THEN buffer[i + 1] ELSE 0

readLInt(buffer) ==
    [hi |-> CharCodeAt(buffer, 2) + 256 * CharCodeAt(buffer, 3),
     lo |-> CharCodeAt(buffer, 0) + 256 * CharCodeAt(buffer, 1)]

writeLInt(num) ==
    << num.lo % 256, num.lo \div 256, U32(num).hi % 256, U32(num).hi \div 256 >>

readLShort(buffer) == CharCodeAt(buffer, 0) + 256 * CharCodeAt(buffer, 1)

writeLShort(num) == << num % 256, (num \div 256) % 256 >>

(***************************************************************************)
(* Arithmetic on numbers, JavaScript string primitives                     *)
(***************************************************************************)
Plus(a, b) ==
    [hi |-> a.hi + b.hi + ((a.lo + b.lo) \div W16), lo |-> (a.lo + b.lo) % W16]

Less(a, b) == a.hi < b.hi \/ (a.hi = b.hi /\ a.lo < b.lo)

\* A number known to be small, as a plain integer.
IntOf(n) == n.hi * W16 + n.lo

Clamp(i, n) == IF i < 0 THEN 0 ELSE IF i > n THEN n ELSE i

\* String.prototype.substring(a, b): both ends clamped to 0..length and swapped
\* when a > b.
substring(s, a, b) ==
    LET ca == Clamp(a, Len(s))
        cb == Clamp(b, Len(s))
    IN  IF ca <= cb THEN SubSeq(s, ca + 1, cb) ELSE SubSeq(s, cb + 1, ca)

\* String.prototype.indexOf(t): the first position (from 0) of t in s, or -1.
indexOf(s, t) ==
    LET hits == { i \in 0..(Len(s) - Len(t)) :
                    /\ t # <<>> => s[i + 1] = t[1]
                    /\ SubSeq(s, i + 1, i + Len(t)) = t }
    IN  IF hits = {} THEN -1 ELSE CHOOSE i \in hits : \A j \in hits : i <= j

\* String.prototype.toLowerCase on octets (A-Z only).
toLowerCase(s) == [i \in 1..Len(s) |-> IF s[i] >= 65 /\ s[i] <= 90 THEN s[i] + 32 ELSE s[i]]

(***************************************************************************)
(* Constants of PharUtils (lines 72-102)                                   *)
(***************************************************************************)
COMPRESSION_NONE == 0
COMPRESSION_GZ == 4096
COMPRESSION_BZIP2 == 8192
SUPPORTED_COMPRESSION == {COMPRESSION_NONE, COMPRESSION_GZ}

SIGNATURE_MD5 == 1
SIGNATURE_SHA1 == 2
SIGNATURE_SHA256 == 4
SIGNATURE_SHA512 == 8

\* 'GBMB'
END_MAGIC == <<71, 66, 77, 66>>

\* '__HALT_COMPILER(); ?>\r\n'
STUB_END ==
    <<95, 95, 72, 65, 76, 84, 95, 67, 79, 77, 80, 73, 76, 69, 82, 40, 41, 59,
      32, 63, 62, 13, 10>>

\* '__halt_compiler();'
HaltToken == toLowerCase(SubSeq(STUB_END, 1, 18))

\* '<?php '
PhpOpen == <<60, 63, 112, 104, 112, 32>>

\* 'newfile'
NewFileName == <<110, 101, 119, 102, 105, 108, 101>>

(***************************************************************************)
(* The libraries the code calls.  They are not part of the repository: the *)
(* model gives each a small stand-in that keeps what the code relies on.   *)
(***************************************************************************)
\* Sum of (w * i + 1) * s[i] over the octets of s, modulo m: the octets, each
\* weighted and raised by one, are the counts of a bag over the positions.
SumBytes(s, w, m) ==
    (BagCardinality([i \in 1..Len(s) |-> (((w * i + 1) * s[i]) % m) + 1]) - Len(s)) % m

\* Digest lengths of Hashes.MD5 / SHA1 / SHA256 / SHA512 (raw output).
HashLen(type) ==
    CASE type = SIGNATURE_MD5 -> 16
      [] type = SIGNATURE_SHA1 -> 20
      [] type = SIGNATURE_SHA256 -> 32
      [] type = SIGNATURE_SHA512 -> 64

\* hasher.raw(buffer): a digest of the kind's length that depends on every octet
\* of the buffer, on the octets' positions and on the kind.  Odd octets carry the
\* plain sum modulo 256, which every single-bit change of the buffer changes.
HashRaw(type, buffer) ==
    LET s1 == SumBytes(buffer, 0, 256)
        s2 == SumBytes(buffer, 1, 251)
    IN  [i \in 1..HashLen(type) |->
            IF i % 2 = 1 THEN (s1 + type + i) % 256 ELSE (s2 + Len(buffer) + i) % 256]

RECURSIVE RunLength(_, _)
\* The length of the run of equal octets at the head of s, at most cap.
RunLength(s, cap) ==
    IF Len(s) < 2 \/ cap = 1 \/ s[1] # s[2] THEN Clamp(Len(s), 1)
    ELSE 1 + RunLength(Tail(s), cap - 1)

RECURSIVE RawDeflate(_)
\* new Zlib.RawDeflate(bytes).compress(): runs <<count, octet>>, then a 0.
RawDeflate(s) ==
    IF s = <<>> THEN <<0>>
    ELSE LET n == RunLength(s, 255)
         IN  <<n, s[1]>> \o RawDeflate(SubSeq(s, n + 1, Len(s)))

RECURSIVE RawInflate(_)
\* new Zlib.RawInflate(bytes).decompress(): [ok, data]; a stream that is cut
\* short or carries octets after its end marker throws.
RawInflate(c) ==
    IF c = <<>> THEN [ok |-> FALSE, data |-> <<>>]
    ELSE IF c[1] = 0 THEN [ok |-> Len(c) = 1, data |-> <<>>]
    ELSE IF Len(c) < 2 THEN [ok |-> FALSE, data |-> <<>>]
    ELSE LET rest == RawInflate(SubSeq(c, 3, Len(c)))
         IN  [ok |-> rest.ok, data |-> [i \in 1..c[1] |-> c[2]] \o rest.data]

\* Date.now() / 1000 | 0
Now == 1541203200

(***************************************************************************)
(* PharUtils.BinaryBuffer (lines 170-219): [buffer, offset]                *)
(***************************************************************************)
BinaryBuffer(buffer) == [buffer |-> buffer, offset |-> N(0)]

\* get(length): [err, val, bb].  The offset is advanced before the bounds test.
get(bb, length) ==
    LET len == IF ~Less(length, N(0)) THEN length
               ELSE IF Less(N(Len(bb.buffer)), bb.offset) THEN N(0)
               ELSE N(Len(bb.buffer) - IntOf(bb.offset))
        moved == [bb EXCEPT !.offset = Plus(bb.offset, len)]
    IN  IF len = N(0) THEN [bb |-> bb, err |-> "ok", val |-> <<>>]
        ELSE IF Less(N(Len(bb.buffer)), moved.offset)
             THEN [bb |-> moved, err |-> "OutOfBounds", val |-> <<>>]
             ELSE [bb |-> moved,
                   err |-> "ok",
                   val |-> substring(bb.buffer, IntOf(moved.offset) - IntOf(len),
                                     IntOf(moved.offset))]

put(bb, data) == [bb EXCEPT !.buffer = bb.buffer \o data]

\* PharUtils.Binary.readLInt(r), r the outcome of a get
AsLInt(r) == [bb |-> r.bb, err |-> r.err, val |-> readLInt(r.val)]

\* PharUtils.Binary.readLShort(r), r the outcome of a get
AsLShort(r) == [bb |-> r.bb, err |-> r.err, val |-> readLShort(r.val)]

\* getLInt(): [err, val, bb]
getLInt(bb) == AsLInt(get(bb, N(4)))

putLInt(bb, number) == put(bb, writeLInt(number))

\* getLShort(): [err, val, bb], val a plain integer 0..65535
getLShort(bb) == AsLShort(get(bb, N(2)))

putLShort(bb, number) == put(bb, writeLShort(number))

\* get(n) for the outcome n of a getLInt
GetCounted(n) ==
    IF n.err # "ok" THEN [bb |-> n.bb, err |-> n.err, val |-> <<>>]
    ELSE get(n.bb, n.val)

\* getString(): this.get(this.getLInt())
getString(bb) == GetCounted(getLInt(bb))

putString(bb, data) == put(putLInt(bb, N(Len(data))), data)

(***************************************************************************)
(* The host page.  setTimestamp and setPermission read the free variables  *)
(* `time` and `perm` (lines 753, 724), which no scope of the file          *)
(* declares: each is a property of the global object when the page defines *)
(* one, and a ReferenceError otherwise.  host.time and host.perm are <<>>  *)
(* (not defined) or <<v>>.                                                 *)
(***************************************************************************)
Declared(g) == g # <<>>

\* o || d for an optional value o (<<>> is undefined); zero is the falsy value of
\* the type.
OrElse(o, zero, d) == IF o = <<>> \/ o[1] = zero THEN d ELSE o[1]

(***************************************************************************)
(* PharUtils.PharFile (lines 601-788): a file is a record                  *)
(* [name, contents, compression_type, permission, timestamp, metadata]     *)
(***************************************************************************)
\* PharFile.setCompressionType
setCompressionType(this, type) ==
    IF type \notin SUPPORTED_COMPRESSION
    THEN [err |-> "UnsupportedCompression", this |-> this]
    ELSE [err |-> "ok", this |-> [this EXCEPT !.compression_type = type]]

\* PharFile.setContents
setContents(this, contents, is_compressed) ==
    IF ~is_compressed THEN [err |-> "ok", this |-> [this EXCEPT !.contents = contents]]
    ELSE IF this.compression_type = COMPRESSION_NONE
    THEN [err |-> "ok", this |-> [this EXCEPT !.contents = contents]]
    ELSE IF this.compression_type = COMPRESSION_GZ
    THEN LET r == RawInflate(contents)
         IN  IF r.ok THEN [err |-> "ok", this |-> [this EXCEPT !.contents = r.data]]
             ELSE [err |-> "CompressionError", this |-> this]
    ELSE [err |-> "UnsupportedCompression", this |-> this]

\* PharFile.getCompressedContents
getCompressedContents(this) ==
    IF this.compression_type = COMPRESSION_GZ THEN RawDeflate(this.contents)
    ELSE this.contents

\* PharFile.setTimestamp: tests the global `time`, stores the parameter.
setTimestamp(this, timestamp, host) ==
    IF ~Declared(host.time) THEN [err |-> "ReferenceError", this |-> this, host |-> host]
    ELSE [err |-> "ok",
          this |-> [this EXCEPT !.timestamp = timestamp],
          host |-> IF host.time[1] < 0 THEN [host EXCEPT !.time = <<Now>>] ELSE host]

\* PharFile.setPermission: permission > 4095 || perm < 0, `perm` the global.
setPermission(this, permission, host) ==
    IF permission > 4095 THEN [err |-> "PermissionOutOfRange", this |-> this]
    ELSE IF ~Declared(host.perm) THEN [err |-> "ReferenceError", this |-> this]
    ELSE IF host.perm[1] < 0 THEN [err |-> "PermissionOutOfRange", this |-> this]
    ELSE [err |-> "ok", this |-> [this EXCEPT !.permission = permission]]

\* PharFile.getPharFlags: permission | compression_type
getPharFlags(this) == ToInt32(OrU(N(this.permission), N(this.compression_type)))

\* The options of `new PharFile(name, contents, options)` when none is given.
NoFileOptions ==
    [compression_type |-> <<>>, is_compressed |-> <<>>, timestamp |-> <<>>,
     permission |-> <<>>, metadata |-> <<>>]

\* new PharFile(name, contents, options): [err, file, host], file = <<f>> when the
\* constructor returns and <<>> when it throws.
PharFile(name, contents, options, host) ==
    LET blank == [compression_type |-> COMPRESSION_NONE,
                  contents |-> <<>>, timestamp |-> N(0),
                  permission |-> 0, metadata |-> <<>>,
                  name |-> IF name = <<>> THEN NewFileName ELSE name]
        r1 == setCompressionType(blank,
                  OrElse(options.compression_type, 0, COMPRESSION_NONE))
        r2 == setContents(r1.this, contents, OrElse(options.is_compressed, FALSE, FALSE))
        r3 == setTimestamp(r2.this, OrElse(options.timestamp, N(0), N(-1)), host)
        r4 == setPermission(r3.this, OrElse(options.permission, 0, 438), r3.host)
    IN  IF r1.err # "ok" THEN [err |-> r1.err, host |-> host, file |-> <<>>]
        ELSE IF r2.err # "ok" THEN [err |-> r2.err, host |-> host, file |-> <<>>]
        ELSE IF r3.err # "ok" THEN [err |-> r3.err, host |-> host, file |-> <<>>]
        ELSE IF r4.err # "ok" THEN [err |-> r4.err, host |-> r3.host, file |-> <<>>]
        ELSE [err |-> "ok",
              host |-> r3.host,
              file |-> <<[r4.this EXCEPT !.metadata = OrElse(options.metadata, <<>>, <<>>)]>>]

(***************************************************************************)
(* PharUtils.Phar (lines 234-585): an archive is a record                  *)
(* [stub, alias, signature_type, metadata, files, flags, manifest_api].    *)
(* files is [isArray, slots]: the object {} that setFiles assigns has      *)
(* isArray = FALSE; an array has one slot per index below its length, <<>> *)
(* for an index that `delete` emptied and <<f>> for a file.                *)
(***************************************************************************)
EmptyObject == [isArray |-> FALSE, slots |-> <<>>]
EmptyArray == [isArray |-> TRUE, slots |-> <<>>]

\* The indices `for (var i in this.files)` visits, in ascending order.
Present(files) == { i \in 1..Len(files.slots) : files.slots[i] # <<>> }

\* setStub that cuts the text at the last token in place of the first.
setStubLastToken(this, stub) ==
    LET low == toLowerCase(stub)
        hits == { i \in 0..(Len(low) - Len(HaltToken)) :
                    SubSeq(low, i + 1, i + Len(HaltToken)) = HaltToken }
    IN  IF hits = {} THEN [err |-> "InvalidPrelude", this |-> this]
        ELSE [err |-> "ok",
              this |-> [this EXCEPT !.stub =
                          substring(stub, 0, CHOOSE i \in hits : \A j \in hits : j <= i)
                          \o STUB_END]]

\* setStub that appends the terminator to the whole text.
setStubAppend(this, stub) ==
    IF indexOf(toLowerCase(stub), HaltToken) = -1
    THEN [err |-> "InvalidPrelude", this |-> this]
    ELSE [err |-> "ok", this |-> [this EXCEPT !.stub = stub \o STUB_END]]

\* Phar.setStub
setStub(this, stub) ==
    LET pos == indexOf(toLowerCase(stub), HaltToken)
    IN  IF pos = -1 THEN [err |-> "InvalidPrelude", this |-> this]
        ELSE [err |-> "ok",
              this |-> [this EXCEPT !.stub = substring(stub, 0, pos) \o STUB_END]]

\* Phar.setSignatureType
setSignatureType(this, type) ==
    IF type \notin {SIGNATURE_MD5, SIGNATURE_SHA1, SIGNATURE_SHA256, SIGNATURE_SHA512}
    THEN [err |-> "UnknownSignature", this |-> this]
    ELSE [err |-> "ok", this |-> [this EXCEPT !.signature_type = type]]

\* Phar.getFile: <<f>>, or <<>> for undefined
getFile(this, name) ==
    LET hits == { i \in Present(this.files) : this.files.slots[i][1].name = name }
    IN  IF hits = {} THEN <<>>
        ELSE this.files.slots[CHOOSE i \in hits : \A j \in hits : i <= j]

\* Phar.removeFile: `delete this.files[i]` for the first file of that name.
removeFile(this, name) ==
    LET hits == { i \in Present(this.files) : this.files.slots[i][1].name = name }
    IN  IF hits = {} THEN this
        ELSE [this EXCEPT !.files.slots[CHOOSE i \in hits : \A j \in hits : i <= j] = <<>>]

\* addFile with unshift in place of push: the file becomes the first one.
addFileFirst(this, arg) ==
    IF arg = <<>> THEN [err |-> "ok", this |-> this]
    ELSE LET removed == removeFile(this, arg[1].name)
         IN  IF ~removed.files.isArray THEN [err |-> "TypeError", this |-> removed]
             ELSE [err |-> "ok",
                   this |-> [removed EXCEPT !.files.slots = <<arg>> \o @]]

\* addFile that assigns to the slot of the file of that name, when there is one,
\* and appends otherwise.
addFileInPlace(this, arg) ==
    IF arg = <<>> THEN [err |-> "ok", this |-> this]
    ELSE LET hits == { i \in Present(this.files) :
                         this.files.slots[i][1].name = arg[1].name }
         IN  IF ~this.files.isArray THEN [err |-> "TypeError", this |-> this]
             ELSE IF hits = {}
             THEN [err |-> "ok", this |-> [this EXCEPT !.files.slots = Append(@, arg)]]
             ELSE [err |-> "ok",
                   this |-> [this EXCEPT !.files.slots[CHOOSE i \in hits : TRUE] = arg]]

\* Phar.addFile: [err, this].  arg is <<f>> for a PharFile and <<>> for any other
\* value.  this.files.push exists on an array only.
addFile(this, arg) ==
    IF arg = <<>> THEN [err |-> "ok", this |-> this]
    ELSE LET removed == removeFile(this, arg[1].name)
         IN  IF ~removed.files.isArray THEN [err |-> "TypeError", this |-> removed]
             ELSE [err |-> "ok",
                   this |-> [removed EXCEPT !.files.slots = Append(@, arg)]]

\* Phar.getFiles: this.files.slice(0)
getFiles(this) ==
    IF ~this.files.isArray THEN [err |-> "TypeError", files |-> <<>>]
    ELSE [err |-> "ok", files |-> this.files.slots]

RECURSIVE AddAll(_, _, _)
AddAll(this, files, n) ==
    IF n > Len(files) THEN [err |-> "ok", this |-> this]
    ELSE LET r == addFile(this, files[n])
         IN  IF r.err # "ok" THEN r ELSE AddAll(r.this, files, n + 1)

\* Phar.setFiles: this.files = { }, then addFile for each
setFiles(this, files) == AddAll([this EXCEPT !.files = EmptyObject], files, 1)

\* Phar.getFilesCount: this.files.length, <<>> for undefined
getFilesCount(this) == IF this.files.isArray THEN <<Len(this.files.slots)>> ELSE <<>>

\* The options of `new Phar(options)` when none is given.
NoPharOptions ==
    [metadata |-> <<>>, files |-> <<>>, stub |-> <<>>, signature_type |-> <<>>,
     alias |-> <<>>, flags |-> <<>>, manifest_api |-> <<>>]

\* new Phar(options): [err, this]
Phar(options) ==
    LET blank == [metadata |-> <<>>, files |-> EmptyObject,
                  stub |-> <<>>, signature_type |-> 0,
                  alias |-> OrElse(options.alias, <<>>, <<>>),
                  flags |-> N(0), manifest_api |-> 0]
        r1 == setStub(blank, OrElse(options.stub, <<>>, PhpOpen \o STUB_END))
        r2 == setSignatureType(r1.this, OrElse(options.signature_type, 0, SIGNATURE_SHA1))
        r3 == setFiles([r2.this EXCEPT !.metadata = OrElse(options.metadata, <<>>, <<>>)],
                       OrElse(options.files, <<>>, <<>>))
    IN  IF r1.err # "ok" THEN r1
        ELSE IF r2.err # "ok" THEN r2
        ELSE IF r3.err # "ok" THEN r3
        ELSE [err |-> "ok",
              this |-> [r3.this EXCEPT !.flags = OrElse(options.flags, N(0), N(65536)),
                                       !.manifest_api = OrElse(options.manifest_api, 0, 17)]]

(***************************************************************************)
(* Phar.savePharData (lines 506-572)                                       *)
(***************************************************************************)
\* The manifest record of one file (lines 527-533), appended to manifest_buffer.
PutFileRecord(mb, file) ==
    LET contents == getCompressedContents(file)
        b1 == putString(mb, file.name)
        b2 == putLInt(b1, N(Len(file.contents)))
        b3 == putLInt(b2, file.timestamp)
        b4 == putLInt(b3, N(Len(contents)))
        b5 == putLInt(b4, crc32(file.contents))
        b6 == putLInt(b5, getPharFlags(file))
    IN  putString(b6, file.metadata)

RECURSIVE SaveFiles(_, _, _, _)
\* The loop `for (var i in this.files)` from index i on: [manifest, all_contents].
SaveFiles(files, i, mb, all_contents) ==
    IF i > Len(files.slots) THEN [all_contents |-> all_contents, manifest |-> mb]
    ELSE IF files.slots[i] = <<>> THEN SaveFiles(files, i + 1, mb, all_contents)
    ELSE SaveFiles(files, i + 1, PutFileRecord(mb, files.slots[i][1]),
                   all_contents \o getCompressedContents(files.slots[i][1]))

\* Everything savePharData writes before the signature (lines 511-540).
SavedBody(this) ==
    LET m0 == putLInt(BinaryBuffer(<<>>), N(getFilesCount(this)[1]))
        m1 == putLShort(m0, this.manifest_api)
        m2 == putLInt(m1, this.flags)
        m3 == putString(m2, this.alias)
        m4 == putString(m3, this.metadata)
        fs == SaveFiles(this.files, 1, m4, <<>>)
        b1 == putString(put(BinaryBuffer(<<>>), this.stub), fs.manifest.buffer)
    IN  put(b1, fs.all_contents)

\* A trailer with the signature type written before the signature.
SignedTypeFirst(body, signature_type) ==
    put(put(putLInt(body, N(signature_type)), HashRaw(signature_type, body.buffer)),
        END_MAGIC)

\* The signature, the signature type and the magic after a signed body
\* (lines 562-565).
Signed(body, signature_type) ==
    put(putLInt(put(body, HashRaw(signature_type, body.buffer)), N(signature_type)),
        END_MAGIC)

\* savePharData that writes the trailer with the signature type first.
savePharDataTypeFirst(this) ==
    IF getFilesCount(this) = <<>> \/ getFilesCount(this) = <<0>>
    THEN [data |-> <<>>, err |-> "EmptyArchive"]
    ELSE [data |-> <<SignedTypeFirst(SavedBody(this), this.signature_type).buffer>>,
          err |-> "ok"]

\* savePharData(): [err, data], data = <<buffer>> when it returns.
savePharData(this) ==
    IF getFilesCount(this) = <<>> \/ getFilesCount(this) = <<0>>
    THEN [data |-> <<>>, err |-> "EmptyArchive"]
    ELSE IF this.signature_type \notin
              {SIGNATURE_MD5, SIGNATURE_SHA1, SIGNATURE_SHA256, SIGNATURE_SHA512}
    THEN [data |-> <<>>, err |-> "UnknownSignature"]
    ELSE [data |-> <<Signed(SavedBody(this), this.signature_type).buffer>>, err |-> "ok"]

(***************************************************************************)
(* Phar.loadPharData (lines 416-499)                                       *)
(***************************************************************************)
\* The call's frame: err ("ok" until a statement throws), this, the host, and
\* the local variables, <<>> while not assigned.
Frame(this, host, buffer, stub_len) ==
    [i |-> N(0), buffer |-> BinaryBuffer(buffer), err |-> "ok", this |-> this,
     contents |-> <<>>, timestamp |-> <<>>, host |-> host,
     metadata |-> <<>>, file |-> <<>>, flags |-> <<>>, stub_len |-> stub_len,
     manifest_buffer |-> <<>>, files_count |-> <<>>, filename |-> <<>>, size |-> <<>>,
     readed_crc32 |-> <<>>]

\* name = r, for the outcome r of a get on the BinaryBuffer in variable bb
Local(e, bb, name, r) ==
    IF r.err # "ok" THEN [e EXCEPT !.err = r.err]
    ELSE [e EXCEPT ![bb] = r.bb, ![name] = r.val]

\* this.name = r
Field(e, bb, name, r) ==
    IF r.err # "ok" THEN [e EXCEPT !.err = r.err]
    ELSE [e EXCEPT ![bb] = r.bb, !.this[name] = r.val]

\* manifest_buffer = new PharUtils.BinaryBuffer(r)
Manifest(e, r) ==
    IF r.err # "ok" THEN [e EXCEPT !.err = r.err]
    ELSE [e EXCEPT !.buffer = r.bb, !.manifest_buffer = BinaryBuffer(r.val)]

\* file = new PharUtils.PharFile(...), r the constructor's outcome
Made(e, r) == [e EXCEPT !.err = r.err, !.host = r.host, !.file = r.file]

\* this.addFile(file), r its outcome
Added(e, r) == [e EXCEPT !.err = r.err, !.this = r.this]

\* The options object of lines 478, 482 and 486-489.
LoadedOptions(e) ==
    [compression_type |-> <<And16(e.flags.lo, 61440)>>,
     is_compressed |-> <<TRUE>>,
     timestamp |-> <<e.timestamp>>,
     permission |-> <<And16(e.flags.lo, 4095)>>,
     metadata |-> <<e.metadata>>]

RECURSIVE LoadFile(_, _)
\* The statements of the loop body (lines 477-495) from statement pc on.
LoadFile(e, pc) ==
    IF e.err # "ok" \/ pc > 11 THEN e
    ELSE LoadFile(
        CASE pc = 1 -> Local(e, "manifest_buffer", "filename", getString(e.manifest_buffer))
          [] pc = 2 -> [e EXCEPT !.manifest_buffer.offset = Plus(@, N(4))]
          [] pc = 3 -> Local(e, "manifest_buffer", "timestamp", getLInt(e.manifest_buffer))
          [] pc = 4 -> Local(e, "manifest_buffer", "size", getLInt(e.manifest_buffer))
          [] pc = 5 -> Local(e, "manifest_buffer", "readed_crc32",
                             getLInt(e.manifest_buffer))
          [] pc = 6 -> Local(e, "manifest_buffer", "flags", getLInt(e.manifest_buffer))
          [] pc = 7 -> Local(e, "manifest_buffer", "metadata",
                             getString(e.manifest_buffer))
          [] pc = 8 -> Local(e, "buffer", "contents", get(e.buffer, e.size))
          [] pc = 9 -> Made(e, PharFile(e.filename, e.contents, LoadedOptions(e), e.host))
          [] pc = 10 -> IF e.readed_crc32 # crc32(e.file[1].contents)
                        THEN [e EXCEPT !.err = "FileCorrupt"] ELSE e
          [] pc = 11 -> Added(e, addFile(e.this, e.file)),
        pc + 1)

RECURSIVE LoadFiles(_)
\* for (var i = 0; i < files_count; i++) { ... }
LoadFiles(e) ==
    IF e.err # "ok" \/ ~Less(e.i, e.files_count) THEN e
    ELSE LoadFiles([LoadFile(e, 1) EXCEPT !.i = Plus(@, N(1))])

RECURSIVE LoadHeader(_, _)
\* The statements of lines 464-474 from statement pc on.
LoadHeader(e, pc) ==
    IF e.err # "ok" \/ pc > 8 THEN e
    ELSE LoadHeader(
        CASE pc = 1 -> Field(e, "buffer", "stub", get(e.buffer, N(e.stub_len)))
          [] pc = 2 -> Manifest(e, getString(e.buffer))
          [] pc = 3 -> Local(e, "manifest_buffer", "files_count",
                             getLInt(e.manifest_buffer))
          [] pc = 4 -> Field(e, "manifest_buffer", "manifest_api",
                             getLShort(e.manifest_buffer))
          [] pc = 5 -> Field(e, "manifest_buffer", "flags", getLInt(e.manifest_buffer))
          [] pc = 6 -> Field(e, "manifest_buffer", "alias", getString(e.manifest_buffer))
          [] pc = 7 -> Field(e, "manifest_buffer", "metadata",
                             getString(e.manifest_buffer))
          [] pc = 8 -> [e EXCEPT !.this.files = EmptyArray],
        pc + 1)

\* What the caller sees of a frame: [err, this, host].
Outcome(e) == [err |-> e.err, this |-> e.this, host |-> e.host]

\* Lines 464-498, after the signature is verified: buffer is the signed region
\* and stub_len the length of the stub in it.
LoadBody(this, host, buffer, stub_len) ==
    Outcome(LoadFiles(LoadHeader(Frame(this, host, buffer, stub_len), 1)))

\* A comparison that accepts every stored digest.
SignatureUnchecked(type, signed, hash) == TRUE

\* Whether the stored digest is the hash of the signed region (line 454).
SignatureMatches(type, signed, hash) == HashRaw(type, signed) = hash

\* loadPharData(buffer): [err, this, host]; this is the archive as the call
\* leaves it, also when it throws.
loadPharData(this, host, buffer) ==
    LET pos == Len(buffer) - 8
        signature_type == readLInt(substring(buffer, pos, pos + 4))
        type == signature_type.lo
        hash_len == HashLen(type)
        hash == substring(buffer, pos - hash_len, pos)
        signed == substring(buffer, 0, pos - hash_len)
        stub_len == indexOf(signed, STUB_END)
        fail(e) == [err |-> e, this |-> this, host |-> host]
    IN  IF substring(buffer, Len(buffer) - 4, Len(buffer)) # END_MAGIC
        THEN fail("MagicMismatch")
        ELSE IF signature_type \notin
                  {N(SIGNATURE_MD5), N(SIGNATURE_SHA1), N(SIGNATURE_SHA256),
                   N(SIGNATURE_SHA512)}
        THEN fail("UnknownSignature")
        ELSE IF ~SignatureMatches(type, signed, hash) THEN fail("SignatureInvalid")
        ELSE IF stub_len = -1 THEN fail("PreludeTerminatorMissing")
        ELSE LoadBody(this, host, signed, stub_len + Len(STUB_END))

(***************************************************************************)
(* Inputs of the calls                                                     *)
(***************************************************************************)
\* The longest files array the model grows.
MaxFiles == 3

\* The most array slots of an archive whose saved buffer is loaded back with one
\* bit changed.
MaxFlipFiles == 1

NameA == <<97>>
NameB == <<98>>
NameC == <<99>>
Names == {NameA, NameB, NameC}

\* new PharFile(name, contents, options): the calls the model makes.
GzFileOptions ==
    [compression_type |-> <<COMPRESSION_GZ>>, is_compressed |-> <<>>,
     timestamp |-> <<N(5)>>, permission |-> <<420>>, metadata |-> <<<<109>>>>]

FileInputs ==
    { <<NameB, <<49>>, NoFileOptions>>,
      <<NameA, <<50, 50>>, NoFileOptions>>,
      <<NameA, <<50, 50>>, GzFileOptions>>,
      <<NameC, <<51, 51, 51>>, [NoFileOptions EXCEPT !.timestamp = <<N(0)>>]>>,
      <<<<>>, <<>>, [NoFileOptions EXCEPT !.compression_type = <<COMPRESSION_BZIP2>>]>>,
      <<NameB, <<49>>, [NoFileOptions EXCEPT !.permission = <<4096>>]>>,
      <<NameB, <<49>>, [NoFileOptions EXCEPT !.permission = <<-1>>]>> }

\* new Phar(options): the calls the model makes.
PharInputs ==
    { NoPharOptions,
      [NoPharOptions EXCEPT !.signature_type = <<SIGNATURE_MD5>>, !.alias = <<<<120>>>>],
      [NoPharOptions EXCEPT !.signature_type = <<SIGNATURE_SHA256>>],
      [NoPharOptions EXCEPT !.signature_type = <<SIGNATURE_SHA512>>],
      [NoPharOptions EXCEPT !.signature_type = <<3>>],
      [NoPharOptions EXCEPT !.stub = <<PhpOpen>>],
      [NoPharOptions EXCEPT !.flags = <<N(0)>>, !.manifest_api = <<0>>] }

\* '__Halt_compiler();'
MixedToken == [HaltToken EXCEPT ![3] = 72]

\* phar.setStub(stub): the texts the model passes besides getStub().  The first
\* holds the token in lower case and text after it, the second the token twice,
\* the third no token.
StubInputs ==
    { PhpOpen \o HaltToken \o <<122>>,
      PhpOpen \o MixedToken \o STUB_END,
      <<97>> }

\* buffer with bit `bit` of the octet at offset pos (from 0) inverted.
FlipBit(buffer, pos, bit) ==
    LET p2 == IF bit = 0 THEN 1 ELSE IF bit = 1 THEN 2 ELSE IF bit = 2 THEN 4
              ELSE IF bit = 3 THEN 8 ELSE IF bit = 4 THEN 16 ELSE IF bit = 5 THEN 32
              ELSE IF bit = 6 THEN 64 ELSE 128
        old == buffer[pos + 1]
    IN  [buffer EXCEPT ![pos + 1] =
            IF (old \div p2) % 2 = 1 THEN old - p2 ELSE old + p2]

\* Archives written elsewhere, as values: one without files and with default
\* header fields, one without files and with other header fields, one holding a
\* single GZ file.
ForeignEmpty ==
    [metadata |-> <<>>, files |-> EmptyArray, stub |-> PhpOpen \o STUB_END,
     signature_type |-> SIGNATURE_SHA1, alias |-> <<>>, flags |-> N(65536),
     manifest_api |-> 17]

ForeignEmptyAliased ==
    [ForeignEmpty EXCEPT !.alias = <<120>>, !.metadata = <<109>>, !.flags = N(0),
                         !.manifest_api = 16, !.signature_type = SIGNATURE_SHA256]

ForeignGzFile ==
    [compression_type |-> COMPRESSION_GZ, contents |-> <<50, 50>>, timestamp |-> N(5),
     permission |-> 420, metadata |-> <<109>>, name |-> NameA]

ForeignOneFile == [ForeignEmpty EXCEPT !.files.slots = <<<<ForeignGzFile>>>>]

\* A file whose flags say BZIP2, its contents stored as they are.
ForeignBzip2File == [ForeignGzFile EXCEPT !.compression_type = COMPRESSION_BZIP2,
                                          !.name = NameB]

ForeignBzip2 == [ForeignEmpty EXCEPT !.files.slots = <<<<ForeignBzip2File>>>>]

ForeignGzBzip2 ==
    [ForeignEmpty EXCEPT !.files.slots = <<<<ForeignGzFile>>, <<ForeignBzip2File>>>>]

\* An archive with flags 0 and manifest API 0 holding one file with an empty
\* name, timestamp 0 and permission 0.
ForeignZeroFile ==
    [compression_type |-> COMPRESSION_NONE, contents |-> <<50, 50>>, timestamp |-> N(0),
     permission |-> 0, metadata |-> <<>>, name |-> <<>>]

ForeignZeros ==
    [ForeignEmpty EXCEPT !.files.slots = <<<<ForeignZeroFile>>>>, !.flags = N(0),
                         !.manifest_api = 0]

\* An archive without files whose prelude holds the token, in lower case, before
\* its terminator.
ForeignTwoTokens ==
    [ForeignEmpty EXCEPT !.stub = PhpOpen \o HaltToken \o <<32>> \o STUB_END]

\* The offset of the CRC slot of the first file record of a buffer written from
\* archive a: stub, manifest length, 18 octets of header with empty alias and
\* metadata, the name string, three u32.
FirstCrcOffset(a) ==
    Len(a.stub) + 4 + 18 + Len(a.alias) + Len(a.metadata) + 4
    + Len(a.files.slots[1][1].name) + 12

\* buffer with the lowest bit of its signature type inverted, and with the
\* lowest bit of its last octet inverted.
Unkinded(buffer) == FlipBit(buffer, Len(buffer) - 8, 0)
Unmagicked(buffer) == FlipBit(buffer, Len(buffer) - 1, 0)

\* The buffers loadPharData is given besides the ones savePharData returned: the
\* archives above, and buffers that fail one check or more.  "badcrc" holds a
\* wrong CRC under a right signature, "unsigned badcrc" under the signature of
\* the right CRC; "noterminator" holds no terminator under a right signature;
\* "nokind" holds the signature type 3 and "nomagic" a wrong magic after it.
CorpusNames ==
    {"empty", "aliased", "onefile", "badcrc", "twotokens", "bzip2", "gz bzip2",
     "bzip2 badcrc", "unsigned badcrc", "noterminator", "nokind", "nomagic", "zeros"}

Corpus(which) ==
    CASE which = "empty" -> Signed(SavedBody(ForeignEmpty), SIGNATURE_SHA1).buffer
      [] which = "aliased" ->
            Signed(SavedBody(ForeignEmptyAliased), SIGNATURE_SHA256).buffer
      [] which = "onefile" -> Signed(SavedBody(ForeignOneFile), SIGNATURE_SHA1).buffer
      [] which = "zeros" -> Signed(SavedBody(ForeignZeros), SIGNATURE_SHA1).buffer
      [] which = "bzip2" -> Signed(SavedBody(ForeignBzip2), SIGNATURE_SHA1).buffer
      [] which = "gz bzip2" -> Signed(SavedBody(ForeignGzBzip2), SIGNATURE_SHA1).buffer
      [] which = "twotokens" ->
            Signed(SavedBody(ForeignTwoTokens), SIGNATURE_SHA1).buffer
      [] which = "badcrc" ->
            Signed(BinaryBuffer(FlipBit(SavedBody(ForeignOneFile).buffer,
                                        FirstCrcOffset(ForeignOneFile), 0)),
                   SIGNATURE_SHA1).buffer
      [] which = "bzip2 badcrc" ->
            Signed(BinaryBuffer(FlipBit(SavedBody(ForeignBzip2).buffer,
                                        FirstCrcOffset(ForeignBzip2), 0)),
                   SIGNATURE_SHA1).buffer
      [] which = "unsigned badcrc" ->
            FlipBit(Signed(SavedBody(ForeignOneFile), SIGNATURE_SHA1).buffer,
                    FirstCrcOffset(ForeignOneFile), 0)
      [] which = "noterminator" ->
            Signed(BinaryBuffer(FlipBit(SavedBody(ForeignEmpty).buffer,
                                        Len(PhpOpen), 0)),
                   SIGNATURE_SHA1).buffer
      [] which = "nokind" ->
            Unkinded(Signed(SavedBody(ForeignOneFile), SIGNATURE_SHA1).buffer)
      [] which = "nomagic" ->
            Unmagicked(Unkinded(Signed(SavedBody(ForeignOneFile), SIGNATURE_SHA1).buffer))

(***************************************************************************)
(* The state: one archive object and the caller's variables                *)
(***************************************************************************)
VARIABLES
    host,   \* the globals `time` and `perm` of the page
    phar,   \* the Phar object
    data,   \* phar_contents: <<buffer>> when the last call was a savePharData
            \* that returned, else <<>>
    src,    \* <<the archive as it was when savePharData returned>>, until the
            \* archive is changed by anything but a load
    op,     \* the last call: [name, input, arg, held]; held tells whether the
            \* archive held a file of the name when addFile was called
    err,    \* how the last call ended: "ok" or the error it threw
    cursor, \* a BinaryBuffer that the caller reads by itself: [buffer, offset]
    read,   \* what the last call on cursor returned, <<>> when it threw
    left    \* the octets of cursor that were left to read before the last call

vars == <<host, phar, data, src, op, err, cursor, read, left>>

\* The caller's BinaryBuffer and what it got from it.
reader == <<cursor, read, left>>

\* The record of a call other than an addFile.
Call(name, input, arg) == [name |-> name, arg |-> arg, input |-> input, held |-> FALSE]

Init ==
    /\ host \in [time : {<<>>, <<-1>>}, perm : {<<>>, <<-1>>, <<0>>}]
    /\ phar = Phar(NoPharOptions).this
    /\ data = <<>>
    /\ src = <<>>
    /\ op = Call("Phar", "none", <<NoPharOptions>>)
    /\ err = "ok"
    /\ cursor = BinaryBuffer(<<>>)
    /\ read = <<>>
    /\ left = 0

\* phar = new PharUtils.Phar(options), r the constructor's outcome
Constructed(r, input, options) ==
    /\ phar' = IF r.err = "ok" THEN r.this ELSE phar
    /\ err' = r.err
    /\ op' = Call("Phar", input, <<options>>)
    /\ data' = <<>>
    /\ src' = <<>>
    /\ UNCHANGED <<host, reader>>

NewPhar(options) ==
    Constructed(Phar(options), IF options = NoPharOptions THEN "none" ELSE "options",
                options)

\* phar.setStub(stub), r its outcome
StubSet(r, input, stub) ==
    /\ phar' = r.this
    /\ err' = r.err
    /\ op' = Call("setStub", input, <<stub>>)
    /\ data' = <<>>
    /\ src' = <<>>
    /\ UNCHANGED <<host, reader>>

\* phar.setStub(stub), and phar.setStub(phar.getStub()) when stub is the prelude
\* held, called on an archive just constructed or loaded or after another setStub
SetStub(stub) ==
    /\ op.name \in {"Phar", "loadPharData", "setStub"}
    /\ StubSet(setStub(phar, stub), IF stub = phar.stub THEN "getStub" ELSE "text", stub)

\* phar.setFiles(files), r its outcome
FilesSet(r, files) ==
    /\ phar' = r.this
    /\ err' = r.err
    /\ op' = Call("setFiles", IF files = <<>> THEN "empty" ELSE "files", files)
    /\ data' = <<>>
    /\ src' = <<>>
    /\ UNCHANGED <<host, reader>>

\* phar.setFiles([]), and phar.setFiles(files) for the list of the files that
\* the archive holds
SetFiles(files) == FilesSet(setFiles(phar, files), files)

\* phar.addFile(file), r its outcome, for the file made that the constructor
\* returned
AddedFile(made, r, input) ==
    /\ err' = r.err
    /\ op' = [name |-> "addFile", arg |-> made.file, input |-> input,
              held |-> getFile(phar, made.file[1].name) # <<>>]
    /\ phar' = r.this

\* phar.addFile(new PharUtils.PharFile(name, contents, options)): the constructor,
\* made its outcome, and addFile when the constructor returned.  op.arg is the
\* file constructed, or the options when the constructor threw.
AddMade(made, input, options) ==
    /\ host' = made.host
    /\ data' = <<>>
    /\ src' = <<>>
    /\ UNCHANGED reader
    /\ IF made.err # "ok"
       THEN /\ err' = made.err
            /\ op' = Call("PharFile", input, <<options>>)
            /\ UNCHANGED phar
       ELSE AddedFile(made, addFile(phar, made.file), input)

AddNewFile(name, contents, options) ==
    /\ phar.files.isArray => Len(phar.files.slots) < MaxFiles
    /\ AddMade(PharFile(name, contents, options, host),
               IF options = NoFileOptions THEN "none" ELSE "options", options)

\* phar.removeFile(name)
RemoveFile(name) ==
    /\ phar' = removeFile(phar, name)
    /\ err' = "ok"
    /\ op' = Call("removeFile", "none", <<name>>)
    /\ data' = <<>>
    /\ src' = <<>>
    /\ UNCHANGED <<host, reader>>

\* phar_contents = phar.savePharData(), r its outcome
Saved(r) ==
    /\ data' = r.data
    /\ src' = IF r.err = "ok" THEN <<phar>> ELSE <<>>
    /\ err' = r.err
    /\ op' = Call("savePharData", "none", <<>>)
    /\ UNCHANGED <<host, phar, reader>>

Save == Saved(savePharData(phar))

\* target.loadPharData(buffer), the outcome written to the state.
Landed(r, input) ==
    /\ phar' = r.this
    /\ host' = r.host
    /\ err' = r.err
    /\ op' = Call("loadPharData", input, <<>>)
    /\ data' = <<>>
    /\ UNCHANGED <<src, reader>>

Loaded(target, buffer, input) == Landed(loadPharData(target, host, buffer), input)

\* phar.loadPharData(phar_contents)
Load ==
    /\ data # <<>>
    /\ Loaded(phar, data[1], "saved")

\* phar = new PharUtils.Phar(); phar.loadPharData(phar_contents)
LoadNew ==
    /\ data # <<>>
    /\ Loaded(Phar(NoPharOptions).this, data[1], "saved to new")

\* phar.loadPharData(buffer) for a buffer written elsewhere, as the first call
\* on a new archive
LoadForeign(which) ==
    /\ op.name = "Phar"
    /\ err = "ok"
    /\ Loaded(phar, Corpus(which), which)

\* phar.loadPharData(phar_contents) after the bit `bit` of the octet at pos,
\* before the magic, was inverted
LoadFlipped(pos, bit) ==
    /\ Len(src[1].files.slots) <= MaxFlipFiles
    /\ Loaded(phar, FlipBit(data[1], pos, bit), "flipped")

Next ==
    \/ \E options \in PharInputs : NewPhar(options)
    \/ \E stub \in StubInputs \cup {phar.stub} : SetStub(stub)
    \/ \E i \in FileInputs : AddNewFile(i[1], i[2], i[3])
    \/ \E name \in Names : RemoveFile(name)
    \/ \E files \in {<<>>, SelectSeq(phar.files.slots, LAMBDA slot : slot # <<>>)} :
          SetFiles(files)
    \/ Save
    \/ Load
    \/ LoadNew
    \/ \E which \in CorpusNames : LoadForeign(which)
    \/ /\ data # <<>>
       /\ \E pos \in 0..(Len(data[1]) - 5), bit \in 0..7 : LoadFlipped(pos, bit)

Spec == Init /\ [][Next]_vars

(***************************************************************************)
(* A BinaryBuffer read by the caller (lines 170-217)                       *)
(***************************************************************************)
\* The largest offset from which the model goes on reading.
MaxOffset == 8

\* new PharUtils.BinaryBuffer(buffer): the buffers the model reads.  The last
\* three start with the length of a string: 1 before two octets, 2 before one
\* octet, 0 before one octet.
ReaderBuffers ==
    { <<7>>, <<7, 8>>, <<7, 8, 9>>,
      <<1, 0, 0, 0, 7, 8>>, <<2, 0, 0, 0, 7>>, <<0, 0, 0, 0, 7>> }

\* The lengths the model passes to get.
ReaderLengths == -1..5

ReaderInit ==
    /\ host = [time |-> <<>>, perm |-> <<>>]
    /\ phar = Phar(NoPharOptions).this
    /\ data = <<>>
    /\ src = <<>>
    /\ op = Call("BinaryBuffer", "none", <<>>)
    /\ err = "ok"
    /\ cursor \in { BinaryBuffer(buffer) : buffer \in ReaderBuffers }
    /\ read = <<>>
    /\ left = Len(cursor.buffer)

\* A call on cursor, r its outcome [bb, err, val]
Got(r, name, arg) ==
    /\ cursor' = r.bb
    /\ err' = r.err
    /\ read' = r.val
    /\ left' = Len(cursor.buffer) - IntOf(cursor.offset)
    /\ op' = Call(name, "none", arg)
    /\ UNCHANGED <<host, phar, data, src>>

\* cursor.get(length)
Get(length) ==
    /\ IntOf(cursor.offset) <= MaxOffset
    /\ Got(get(cursor, N(length)), "get", <<length>>)

\* cursor.getString()
GetString ==
    /\ IntOf(cursor.offset) <= MaxOffset
    /\ Got(getString(cursor), "getString", <<>>)

ReaderNext ==
    \/ \E length \in ReaderLengths : Get(length)
    \/ GetString

ReaderSpec == ReaderInit /\ [][ReaderNext]_vars

(***************************************************************************)
(* Properties                                                              *)
(***************************************************************************)
\* The files an archive holds, in the order `for (var i in this.files)` visits.
Entries(a) ==
    LET held == SelectSeq(a.files.slots, LAMBDA slot : slot # <<>>)
    IN  [i \in 1..Len(held) |-> held[i][1]]

\* Equal in prelude, alias, globalFlags, manifestApi, globalMetadata,
\* signatureKind and in the ordered list of entries.
SameArchive(a, b) ==
    /\ a.stub = b.stub
    /\ a.alias = b.alias
    /\ a.flags = b.flags
    /\ a.manifest_api = b.manifest_api
    /\ a.metadata = b.metadata
    /\ a.signature_type = b.signature_type
    /\ Entries(a) = Entries(b)

\* C1: the buffer savePharData returned for an archive, loaded into a new
\* archive, gives an archive equal to the one saved.
C1_RoundTrip ==
    (op.name = "loadPharData" /\ op.input = "saved to new")
        => (err = "ok" /\ SameArchive(phar, src[1]))

\* What loadPharData makes of the buffer savePharData returns for archive a, in
\* a new archive: [err, this, host].
Reloaded(a, h) == loadPharData(Phar(NoPharOptions).this, h, savePharData(a).data[1])

\* C2: on an archive just constructed without options, addFile(file) returns,
\* getFilesCount() is then 1, getFile(name of the file) is the file, and
\* savePharData returns a buffer that holds that one file.
C2_AddToNewArchive ==
    [][(op.name = "Phar" /\ op.input = "none" /\ err = "ok" /\ op'.name = "addFile")
        => /\ err' = "ok"
           /\ getFilesCount(phar') = <<1>>
           /\ getFile(phar', op'.arg[1].name) = op'.arg
           /\ savePharData(phar').err = "ok"
           /\ Entries(Reloaded(phar', host').this) = op'.arg]_vars

\* C3: new PharFile(name, contents) returns a file with the contents given,
\* compression NONE, permission 438, empty metadata and the current second as
\* its timestamp.
C3_DefaultFile ==
    (op.name \in {"PharFile", "addFile"} /\ op.input = "none")
        => /\ op.name = "addFile"
           /\ <<op.arg[1].name, op.arg[1].contents, NoFileOptions>> \in FileInputs
           /\ op.arg[1].compression_type = COMPRESSION_NONE
           /\ op.arg[1].permission = 438
           /\ op.arg[1].metadata = <<>>
           /\ op.arg[1].timestamp = N(Now)

\* C4: after addFile(e), whatever the archive was, getFile(e.name) is e and no
\* other file of the archive has that name.
C4_NameUnique ==
    op.name = "addFile"
        => /\ getFile(phar, op.arg[1].name) = op.arg
           /\ Cardinality({ i \in Present(phar.files) :
                              phar.files.slots[i][1].name = op.arg[1].name }) = 1

\* C5: savePharData throws the empty-archive error and returns no buffer
\* whenever the archive holds no file, also when all it held was removed.
C5_EmptyArchive ==
    (op.name = "savePharData" /\ Entries(phar) = <<>>)
        => (err = "EmptyArchive" /\ data = <<>>)


\* The errors the claim lists for a load of a buffer with one bit changed.
FlipErrors ==
    {"SignatureInvalid", "FileCorrupt", "TruncatedManifest", "OutOfBounds",
     "PreludeTerminatorMissing"}

\* C6, as stated: loadPharData of a saved buffer with one bit before the magic
\* inverted throws one of the signature, file-corrupt, truncated-manifest,
\* out-of-bounds and missing-terminator errors.
C6_FlipFailsAsListed ==
    (op.name = "loadPharData" /\ op.input = "flipped") => err \in FlipErrors

\* C6, amended: loadPharData of a saved buffer with one bit before the magic
\* inverted never returns; it throws one of the errors listed or, when the bit
\* is one of the signature type's, the unknown-signature error.
C6_FlipFails ==
    (op.name = "loadPharData" /\ op.input = "flipped")
        => err \in FlipErrors \cup {"UnknownSignature"}

\* A saved buffer was loaded with a bit of its signature type inverted.
C6_Witness ==
    op.name = "loadPharData" /\ op.input = "flipped" /\ err = "UnknownSignature"

\* The digest lengths the claim names, by signature kind.
DigestLength == (1 :> 16) @@ (2 :> 20) @@ (4 :> 32) @@ (8 :> 64)

\* buffer ends with a digest of the kind's length over all octets before it,
\* then the kind as a little-endian u32, then 'GBMB'.
SignatureLaw(buffer, kind) ==
    LET n == Len(buffer)
        h == DigestLength[kind]
    IN  /\ kind \in DOMAIN DigestLength
        /\ SubSeq(buffer, n - 3, n) = <<71, 66, 77, 66>>
        /\ SubSeq(buffer, n - 7, n - 4) = <<kind, 0, 0, 0>>
        /\ SubSeq(buffer, n - 7 - h, n - 8)
              = HashRaw(kind, SubSeq(buffer, 1, n - 8 - h))

\* The buffers a loadPharData of the given input may have been handed, data
\* being the buffer saved last.
Handed(input, saved) ==
    IF input \in CorpusNames THEN {Corpus(input)}
    ELSE IF input = "flipped"
    THEN { FlipBit(saved[1], pos, bit) : pos \in 0..(Len(saved[1]) - 5), bit \in 0..7 }
    ELSE {saved[1]}

\* C7: a buffer savePharData returns ends with the digest of the archive's
\* signature kind (16, 20, 32, 64 octets) over all octets before the digest,
\* the kind as u32 and 'GBMB'; and loadPharData returns only for a buffer whose
\* stored digest is the hash of the octets before it.
C7_SignatureLaw ==
    [][/\ (op'.name = "savePharData" /\ err' = "ok")
            => SignatureLaw(data'[1], phar'.signature_type)
       /\ (op'.name = "loadPharData" /\ err' = "ok")
            => \E buffer \in Handed(op'.input, data), kind \in DOMAIN DigestLength :
                  SignatureLaw(buffer, kind)]_vars

\* savePharData returned a buffer signed with SHA512.
C7_Witness ==
    /\ op.name = "savePharData"
    /\ err = "ok"
    /\ phar.signature_type = SIGNATURE_SHA512
    /\ Len(data[1]) > 72

\* The u32 at offset at (from 0) of a buffer, least significant octet first.
U32At(buffer, at) ==
    [hi |-> buffer[at + 3] + 256 * buffer[at + 4],
     lo |-> buffer[at + 1] + 256 * buffer[at + 2]]

RECURSIVE RecordAt(_, _)
\* The offset, in the buffer saved for archive a, of the manifest record of its
\* i-th file: after the prelude, the manifest length, the 18 octets of count,
\* api, flags and the two string lengths, alias and metadata, and the records
\* before it, each 28 octets and a name and a metadata string long.
RecordAt(a, i) ==
    IF i = 1 THEN Len(a.stub) + 4 + 18 + Len(a.alias) + Len(a.metadata)
    ELSE RecordAt(a, i - 1) + 28 + Len(Entries(a)[i - 1].name)
         + Len(Entries(a)[i - 1].metadata)

\* The offset of the CRC slot of that record: after the name string, the size,
\* the timestamp and the compressed size.
CrcSlot(a, i) == RecordAt(a, i) + 4 + Len(Entries(a)[i].name) + 12

\* The stored CRC of a file of the corpus differs from crc32 of its contents.
CrcDiffers(which) == which = "badcrc"

\* C8: savePharData writes crc32 of the uncompressed contents at the CRC slot of
\* every file, GZ or not, and loadPharData throws the file-corrupt error for a
\* buffer in which a stored CRC differs from crc32 of the decompressed contents.
C8_CrcLaw ==
    /\ (op.name = "savePharData" /\ err = "ok")
        => \A i \in 1..Len(Entries(phar)) :
              U32At(data[1], CrcSlot(phar, i)) = crc32(Entries(phar)[i].contents)
    /\ (op.name = "loadPharData" /\ CrcDiffers(op.input)) => err = "FileCorrupt"

RECURSIVE PayloadAt(_, _)
\* The sum of the compressed sizes of the files of a before the i-th.
PayloadAt(a, i) ==
    IF i = 1 THEN 0
    ELSE PayloadAt(a, i - 1) + Len(getCompressedContents(Entries(a)[i - 1]))

\* The offset of the first payload in a saved buffer: after the prelude, the
\* manifest length and as many octets as that length says.
PayloadsAt(a, buffer) == Len(a.stub) + 4 + IntOf(U32At(buffer, Len(a.stub)))

\* The names and contents of the files of a, in order.
Listing(a) ==
    [i \in 1..Len(Entries(a)) |-> <<Entries(a)[i].name, Entries(a)[i].contents>>]

\* C9: savePharData writes the manifest records and the payloads in the order
\* of the archive's files, the i-th payload at the sum of the compressed sizes
\* of the files before it; loadPharData of that buffer holds the files in that
\* order with the same contents (b, a, c stay b, a, c).
C9_EntryOrder ==
    /\ (op.name = "savePharData" /\ err = "ok")
        => \A i \in 1..Len(Entries(phar)) :
              LET name == Entries(phar)[i].name
                  payload == getCompressedContents(Entries(phar)[i])
                  at == PayloadsAt(phar, data[1]) + PayloadAt(phar, i)
              IN  /\ SubSeq(data[1], RecordAt(phar, i) + 5,
                            RecordAt(phar, i) + 4 + Len(name)) = name
                  /\ SubSeq(data[1], at + 1, at + Len(payload)) = payload
    /\ (op.name = "loadPharData" /\ op.input \in {"saved", "saved to new"}
          /\ err = "ok")
        => Listing(phar) = Listing(src[1])

\* An archive to which b, a and c were added in that order was saved and
\* loaded.
C9_Witness ==
    /\ op.name = "loadPharData"
    /\ op.input = "saved to new"
    /\ err = "ok"
    /\ Listing(src[1]) = <<<<NameB, <<49>>>>, <<NameA, <<50, 50>>>>,
                           <<NameC, <<51, 51, 51>>>>>>
    /\ Listing(phar) = Listing(src[1])

TokenAt(s, i) ==
    /\ i + Len(HaltToken) <= Len(s)
    /\ toLowerCase(SubSeq(s, i + 1, i + Len(HaltToken))) = HaltToken

HasToken(s) == \E i \in 0..Len(s) : TokenAt(s, i)

\* t is s cut at the first token it holds, then the terminator.
CutAtToken(s, t) ==
    \E i \in 0..Len(s) :
        /\ TokenAt(s, i)
        /\ \A j \in 0..(i - 1) : ~TokenAt(s, j)
        /\ t = SubSeq(s, 1, i) \o STUB_END

\* The last n octets of s (all of s when it is shorter).
LastOctets(s, n) == IF Len(s) < n THEN s ELSE SubSeq(s, Len(s) - n + 1, Len(s))

\* s ends with the terminator and holds no token before it.
TokenOnlyInTerminator(s) ==
    /\ LastOctets(s, Len(STUB_END)) = STUB_END
    /\ \A j \in 0..(Len(s) - Len(STUB_END) - 1) : ~TokenAt(s, j)

\* C11, as stated: setStub(s) for a text s that holds the token stores s cut at
\* the first token and the terminator, so the last 24 octets of getStub() are
\* the terminator; and setStub(getStub()) leaves the prelude of any archive as it
\* is, also one that loadPharData filled.
C11_PreludeFixedPoint ==
    [][op'.name = "setStub"
        => /\ HasToken(op'.arg[1])
                => /\ err' = "ok"
                   /\ CutAtToken(op'.arg[1], phar'.stub)
                   /\ LastOctets(phar'.stub, 24) = STUB_END
           /\ op'.input = "getStub" => phar'.stub = phar.stub]_vars

\* C11, amended: setStub(s) for a text s that holds the token stores s cut at
\* the first token and the terminator, so the last 23 octets of getStub() are
\* the terminator and no token comes before them; and setStub(getStub()) leaves
\* the prelude as it is on every archive whose prelude holds no token before its
\* terminator.
C11_PreludeNormalForm ==
    [][op'.name = "setStub"
        => /\ HasToken(op'.arg[1])
                => /\ err' = "ok"
                   /\ CutAtToken(op'.arg[1], phar'.stub)
                   /\ LastOctets(phar'.stub, 23) = STUB_END
                   /\ TokenOnlyInTerminator(phar'.stub)
           /\ (op'.input = "getStub" /\ TokenOnlyInTerminator(phar.stub))
                => (err' = "ok" /\ phar'.stub = phar.stub)]_vars

\* setStub returned for a text with the token in lower case and text after it.
C11_Witness ==
    /\ op.name = "setStub"
    /\ op.input = "text"
    /\ err = "ok"
    /\ op.arg[1] = PhpOpen \o HaltToken \o <<122>>
    /\ phar.stub = PhpOpen \o STUB_END

\* The number of offsets of s at which e occurs.
Occurrences(s, e) ==
    Cardinality({ i \in 0..(Len(s) - Len(e)) : SubSeq(s, i + 1, i + Len(e)) = e })

\* C12: in every state, after the constructor, after a setStub that returned or
\* threw and after a loadPharData, the prelude ends with the terminator and
\* holds the terminator once.
C12_PreludeInvariant ==
    /\ LastOctets(phar.stub, Len(STUB_END)) = STUB_END
    /\ Occurrences(phar.stub, STUB_END) = 1

\* loadPharData returned for a buffer whose prelude is not the default one.
C12_Witness ==
    /\ op.name = "loadPharData"
    /\ op.input = "twotokens"
    /\ err = "ok"
    /\ phar.stub = PhpOpen \o HaltToken \o <<32>> \o STUB_END

\* The archive a loadPharData of the given input was called on, phar being the
\* archive held before the call.
Target(input, held) == IF input = "saved to new" THEN Phar(NoPharOptions).this ELSE held

\* C13: a loadPharData that throws, whatever the error, leaves the archive it
\* was called on with the prelude, alias, flags, manifest API, metadata and files
\* it had before the call.
C13_NoPartialResult ==
    [][(op'.name = "loadPharData" /\ err' # "ok")
        => LET before == Target(op'.input, phar)
           IN  /\ phar'.stub = before.stub
               /\ phar'.alias = before.alias
               /\ phar'.flags = before.flags
               /\ phar'.manifest_api = before.manifest_api
               /\ phar'.metadata = before.metadata
               /\ Entries(phar') = Entries(before)]_vars

\* The signature kind in the trailer of a buffer: the u32 before the magic.
KindOf(buffer) == U32At(buffer, Len(buffer) - 8)

\* C14: a loadPharData that returns was given a buffer whose digest, of the
\* kind in its trailer (MD5, SHA1, SHA256 or SHA512), verifies, and leaves that
\* kind as the archive's signature type, so that savePharData of the archive
\* signs with the same kind.
C14_KindStored ==
    [][(op'.name = "loadPharData" /\ err' = "ok")
        => \E buffer \in Handed(op'.input, data) :
              /\ SignatureLaw(buffer, KindOf(buffer).lo)
              /\ N(phar'.signature_type) = KindOf(buffer)
              /\ savePharData(phar').err = "ok"
                    => KindOf(savePharData(phar').data[1]) = KindOf(buffer)]_vars

\* The calls of FileInputs that may have made a file: the ones with its name,
\* contents and compression type.
MadeFrom(file) ==
    { i \in FileInputs :
        /\ file.name = (IF i[1] = <<>> THEN NewFileName ELSE i[1])
        /\ file.contents = i[2]
        /\ file.compression_type = OrElse(i[3].compression_type, 0, COMPRESSION_NONE) }

\* C15: setTimestamp(t), as the constructor calls it with the timestamp option
\* or -1, returns and stores t when t >= 0 and the current second when t < 0, so
\* the timestamp of a file is never negative.
C15_TimestampLaw ==
    /\ (op.name = "PharFile" /\ err = "ReferenceError") => Declared(host.time)
    /\ op.name = "addFile"
        => /\ ~Less(op.arg[1].timestamp, N(0))
           /\ \E i \in MadeFrom(op.arg[1]) :
                 LET t == IF i[3].timestamp = <<>> THEN N(-1) ELSE i[3].timestamp[1]
                 IN  op.arg[1].timestamp = IF Less(t, N(0)) THEN N(Now) ELSE t

\* C16: setPermission(p), as the constructor calls it with the permission option
\* or 438, stores p and returns when 0 <= p <= 4095, and throws the
\* permission error, and nothing else, only when p is outside that range.
C16_PermissionLaw ==
    /\ op.name = "PharFile"
        => LET p == IF op.arg[1].permission = <<>> THEN 438
                    ELSE op.arg[1].permission[1]
           IN  /\ err = "PermissionOutOfRange" => p \notin 0..4095
               /\ err = "ReferenceError" => ~Declared(host.time)
    /\ op.name = "addFile"
        => /\ op.arg[1].permission \in 0..4095
           /\ \E i \in MadeFrom(op.arg[1]) :
                 op.arg[1].permission
                    = (IF i[3].permission = <<>> THEN 438 ELSE i[3].permission[1])

\* A file of the corpus buffer has a compression type other than NONE and GZ
\* in its flags.
UnsupportedIn(which) == which \in {"bzip2", "gz bzip2", "bzip2 badcrc"}

\* C17: setCompressionType with BZIP2 or another value that is neither NONE nor
\* GZ throws the unsupported-compression error and leaves the file's compression
\* type as it was, so no file has another type than NONE or GZ; and loadPharData
\* of a buffer one of whose files has another type in its flags throws the
\* unsupported-compression error.
C17_CompressionLaw ==
    /\ op.name = "PharFile"
        => (op.arg[1].compression_type \notin {<<>>, <<0>>, <<4096>>}
              => err = "UnsupportedCompression")
    /\ op.name = "addFile" => op.arg[1].compression_type \in {0, 4096}
    /\ \A i \in 1..Len(Entries(phar)), type \in {8192, 12288} :
          setCompressionType(Entries(phar)[i], type)
            = [err |-> "UnsupportedCompression", this |-> Entries(phar)[i]]
    /\ (op.name = "loadPharData" /\ UnsupportedIn(op.input))
        => err = "UnsupportedCompression"

\* C18: setFiles(files) returns for an empty and for a non-empty list, and after
\* it the archive holds the files of the list in the order of the list:
\* getFiles() returns them and getFilesCount() is their number.  (The lists that
\* are passed hold no two files of one name.)
C18_SetFilesLaw ==
    op.name = "setFiles"
    => /\ err = "ok"
       /\ getFiles(phar) = [err |-> "ok", files |-> op.arg]
       /\ getFilesCount(phar) = <<Len(op.arg)>>

\* C19: after addFile and removeFile calls getFilesCount() is the number of
\* files the archive holds, and the number of files that savePharData writes
\* at the head of the manifest is the number of file records it writes.
C19_CountLaw ==
    /\ op.name \in {"addFile", "removeFile"}
        => getFilesCount(phar) = <<Len(Entries(phar))>>
    /\ (op.name = "savePharData" /\ err = "ok")
        => U32At(data[1], Len(phar.stub) + 4) = N(Len(Entries(phar)))

\* The checks of a buffer by its octets: it ends with 'GBMB'; the u32 before
\* that is one of the four signature kinds; the digest before that is the hash
\* of the octets before it; these octets hold the terminator.
MagicOk(buffer) == LastOctets(buffer, 4) = <<71, 66, 77, 66>>
KindOk(buffer) == KindOf(buffer) \in {N(1), N(2), N(4), N(8)}
DigestOk(buffer) == KindOk(buffer) /\ SignatureLaw(buffer, KindOf(buffer).lo)
TerminatorOk(buffer) ==
    Occurrences(SubSeq(buffer, 1, Len(buffer) - 8 - DigestLength[KindOf(buffer).lo]),
                STUB_END) > 0

\* The first check a buffer fails names the error that loadPharData throws.
FirstFailure(buffer, which, thrown) ==
    /\ ~MagicOk(buffer) => thrown = "MagicMismatch"
    /\ (MagicOk(buffer) /\ ~KindOk(buffer)) => thrown = "UnknownSignature"
    /\ (MagicOk(buffer) /\ KindOk(buffer) /\ ~DigestOk(buffer))
        => thrown = "SignatureInvalid"
    /\ (DigestOk(buffer) /\ ~TerminatorOk(buffer)) => thrown = "PreludeTerminatorMissing"
    /\ (DigestOk(buffer) /\ TerminatorOk(buffer) /\ UnsupportedIn(which))
        => thrown = "UnsupportedCompression"
    /\ (DigestOk(buffer) /\ TerminatorOk(buffer) /\ CrcDiffers(which))
        => thrown = "FileCorrupt"
    /\ thrown = "FileCorrupt" => DigestOk(buffer)

\* C20: loadPharData checks the magic, the signature type, the digest, the
\* terminator, the manifest and then each file's compression type and CRC, and
\* throws the error of the first check that fails: a buffer whose digest is not
\* the hash of the signed octets is refused with the signature error whatever
\* else is wrong in it, and the file-corrupt error is thrown only for a buffer
\* whose digest is right.  A saved buffer with one bit inverted has a wrong
\* digest or an unknown signature type.
C20_ValidationOrder ==
    [][op'.name = "loadPharData"
        => IF op'.input = "flipped" THEN err' \in {"SignatureInvalid", "UnknownSignature"}
           ELSE \A buffer \in Handed(op'.input, data) :
                   FirstFailure(buffer, op'.input, err')]_vars

\* The offset of the flags of the record of the i-th file, after the CRC.
FlagsSlot(a, i) == CrcSlot(a, i) + 4

\* The flags the claim has savePharData write for a file:
\* (permission & 0xFFF) | (compression_type & 0xF000).
FlagsWord(file) ==
    N(Or16(And16(N(file.permission).lo, 4095), And16(file.compression_type, 61440)))

\* C21: savePharData writes (permission & 0xFFF) | (compression_type & 0xF000)
\* as the flags of every file, and loadPharData gives a file the permission
\* flags & 0xFFF and the compression type flags & 0xF000, so a file's permission
\* in 0..4095, 0 included, and its compression type come back from a saved
\* buffer as they were.
C21_FlagsWord ==
    /\ (op.name = "savePharData" /\ err = "ok")
        => \A i \in 1..Len(Entries(phar)) :
              U32At(data[1], FlagsSlot(phar, i)) = FlagsWord(Entries(phar)[i])
    /\ (op.name = "loadPharData" /\ op.input = "zeros" /\ err = "ok")
        => /\ Len(Entries(phar)) = 1
           /\ Entries(phar)[1].permission
                = And16(U32At(Corpus("zeros"), FlagsSlot(ForeignZeros, 1)).lo, 4095)
           /\ Entries(phar)[1].compression_type
                = And16(U32At(Corpus("zeros"), FlagsSlot(ForeignZeros, 1)).lo, 61440)
    /\ (op.name = "loadPharData" /\ op.input \in {"saved", "saved to new"}
          /\ err = "ok" /\ src # <<>>)
        => /\ Len(Entries(phar)) = Len(Entries(src[1]))
           /\ \A i \in 1..Len(Entries(src[1])) :
                 Entries(src[1])[i].permission \in 0..4095
                 => /\ Entries(phar)[i].permission = Entries(src[1])[i].permission
                    /\ Entries(phar)[i].compression_type
                         = Entries(src[1])[i].compression_type

\* C22: a value given to a constructor or read from a buffer by loadPharData is
\* stored as it is, but for the cut of the stub and a negative timestamp: a
\* file's timestamp 0 stays 0 and its empty name stays empty, an archive's
\* flags 0 and manifest API 0 stay 0.
C22_StoredAsGiven ==
    /\ (op.name = "Phar" /\ err = "ok")
        => /\ op.arg[1].flags # <<>> => phar.flags = op.arg[1].flags[1]
           /\ op.arg[1].manifest_api # <<>>
                => phar.manifest_api = op.arg[1].manifest_api[1]
    /\ op.name = "addFile"
        => \E i \in FileInputs :
              /\ op.arg[1].name = i[1]
              /\ op.arg[1].contents = i[2]
              /\ (i[3].timestamp # <<>> /\ ~Less(i[3].timestamp[1], N(0)))
                   => op.arg[1].timestamp = i[3].timestamp[1]
    /\ (op.name = "loadPharData" /\ op.input = "zeros" /\ err = "ok")
        => /\ phar.flags = ForeignZeros.flags
           /\ phar.manifest_api = ForeignZeros.manifest_api
           /\ Len(Entries(phar)) = 1
           /\ Entries(phar)[1].name = ForeignZeroFile.name
           /\ Entries(phar)[1].timestamp = ForeignZeroFile.timestamp

\* C23: a get(length) that throws the out-of-bounds error leaves the offset
\* where it was, at most the length of the buffer, and a get that follows it
\* for no more octets than were left before the failed call returns the first
\* of those octets.
C23_FailedGet ==
    [][/\ (op'.name = "get" /\ err' = "OutOfBounds")
            => /\ cursor'.offset = cursor.offset
               /\ ~Less(N(Len(cursor'.buffer)), cursor'.offset)
       /\ (op.name = "get" /\ err = "OutOfBounds" /\ op'.name = "get"
             /\ op'.arg[1] \in 1..left)
            => /\ err' = "ok"
               /\ read' = SubSeq(cursor.buffer, Len(cursor.buffer) - left + 1,
                                 Len(cursor.buffer) - left + op'.arg[1])]_vars

====
